---- MODULE Spec2Model ----
(***************************************************************************)
(* Lock state store of the PDM tutorial backend.                           *)
(*                                                                         *)
(*   app/utils/file_locking.py    LockedFile: open(path, mode), then       *)
(*                                flock(LOCK_EX); __exit__ closes the file *)
(*   app/services/file_service.py LockManager: load_locks, save_locks,     *)
(*                                acquire_lock, release_lock               *)
(*                                                                         *)
(* The model follows the POSIX branch of LockedFile (os.name != 'nt').     *)
(* Each worker is a thread or a process calling the store; every          *)
(* LockedFile block opens the path anew, so every block has its own open   *)
(* file description and flock() excludes threads and processes alike.      *)
(*                                                                         *)
(* The control file is a sequence of tokens: "{", one token per            *)
(* "name": {user, timestamp, message} member, "}".  A write puts the       *)
(* writer's tokens at its own file offset (0 after open) and leaves what   *)
(* lies beyond them in place, as write(2) does.                            *)
(***************************************************************************)
EXTENDS Integers, Sequences, FiniteSets, TLC

\* ------------------------------------------------------------------ bounds
NumWorkers == 2
MaxCalls == 3
\* The stress test of file_locking.py: 3 threads of 100 increments each.
NumThreads == 3
Iterations == 2

Workers == 1..NumWorkers
Threads == 1..NumThreads
NoWorker == 0

\* Repository files.  Workers of the shared specification call on Files; in the
\* disjoint specification worker w calls on OwnFile(w) only.
FileSeq == <<"4806148.mcam", "1234567.vnc", "7654321.mcam", "2468135.vnc">>
Files == {FileSeq[1], FileSeq[2]}
AllFiles == {FileSeq[i] : i \in 1..Len(FileSeq)}
OwnFile(w) == FileSeq[w]
Users == {"mmclean", "jdoe"}
Messages == {"edit gear"}

\* Field(..., min_length=1, max_length=500) of the checkout request models.
MinMessageLength == 1
MaxMessageLength == 500
ValidMessage(m) == Len(m) >= MinMessageLength /\ Len(m) <= MaxMessageLength

\* n copies of the string s, one after the other.
RECURSIVE Repeat(_, _)
Repeat(s, n) ==
    IF n = 0 THEN ""
    ELSE IF n % 2 = 0 THEN LET h == Repeat(s, n \div 2) IN h \o h
    ELSE s \o Repeat(s, n - 1)

\* The messages a caller of acquire_lock may pass: its parameter is a str.
EmptyMessage == ""
LongMessage == Repeat("x", MaxMessageLength + 1)
AnyMessages == Messages \cup {EmptyMessage, LongMessage}

\* ------------------------------------------------------------------- state
VARIABLES
    content,      \* bytes of the control file (locks_file), as tokens
    flock,        \* the worker holding flock(LOCK_EX) on the control file, or NoWorker
    openHandles,  \* the workers whose LockedFile has an open handle (self.file)
    pc,           \* each worker's position in acquire_lock / release_lock
    args,         \* the arguments of each worker's current call
    locks,        \* the worker's local dict `locks`
    result,       \* how the worker's last call ended
    raised,       \* the exception that left the with block of load_locks in this call
    mutated,      \* whether the worker's current call has changed the control file
    calls,        \* calls started so far, by all workers
    clock,        \* datetime.now(timezone.utc), as a logical clock
    grants,       \* per filename: acquires that returned normally minus releases that did
    present,      \* whether the control file exists (locks_file.exists())
    fault,        \* the latest I/O failure each worker's current call has met
    logged,       \* the latest logger.error message of each worker's current call
    saved,        \* the dict of the last save_locks call that returned, if no later
                  \* write has returned
    test_file,    \* bytes of lock_test.json: <<n>> stands for {"counter": n}
    tpc,          \* each stress-test thread's position in safe_increment
    data,         \* each thread's local data['counter']
    iter          \* increments each thread has completed

storeVars == <<content, pc, args, locks, result, raised, mutated, calls, clock, grants,
               present, fault, logged, saved>>
envVars == <<present, fault, saved>>
testVars == <<test_file, tpc, data, iter>>
vars == <<content, flock, openHandles, pc, args, locks, result, raised, mutated,
          calls, clock, grants, present, fault, logged, saved,
          test_file, tpc, data, iter>>

\* ------------------------------------------------------- file content, JSON
LBrace == [k |-> "{", name |-> "", user |-> "", timestamp |-> 0, message |-> ""]
RBrace == [k |-> "}", name |-> "", user |-> "", timestamp |-> 0, message |-> ""]
\* A run of whitespace.
Space == [k |-> " ", name |-> "", user |-> "", timestamp |-> 0, message |-> ""]
Member(r) ==
    [k |-> "member", name |-> r.name, user |-> r.user,
     timestamp |-> r.timestamp, message |-> r.message]
LockInfo(t) ==
    [name |-> t.name, user |-> t.user, timestamp |-> t.timestamp, message |-> t.message]

\* A dict is the sequence of its items in insertion order.
EmptyDict == <<>>
HasKey(d, f) == \E i \in 1..Len(d) : d[i].name = f
Get(d, f) == d[CHOOSE i \in 1..Len(d) : d[i].name = f]
\* locks[filename] = {...}
SetItem(d, r) ==
    IF HasKey(d, r.name)
    THEN [i \in 1..Len(d) |-> IF d[i].name = r.name THEN r ELSE d[i]]
    ELSE Append(d, r)
\* del locks[filename]
DelItem(d, f) == SelectSeq(d, LAMBDA r : r.name # f)

\* json.dump(locks, f, indent=2)
json_dump(d) == <<LBrace>> \o [i \in 1..Len(d) |-> Member(d[i])] \o <<RBrace>>

\* content.strip(); json.loads skips the same whitespace around the document.
Strip(c) ==
    IF \A i \in 1..Len(c) : c[i].k # " " THEN c
    ELSE SelectSeq(c, LAMBDA t : t.k # " ")

WellFormed(c) ==
    /\ Len(c) >= 2
    /\ c[1] = LBrace
    /\ c[Len(c)] = RBrace
    /\ \A i \in 2..(Len(c) - 1) : c[i].k = "member"

RECURSIVE DictOf(_, _)
DictOf(c, i) ==
    IF i < 2 THEN EmptyDict ELSE SetItem(DictOf(c, i - 1), LockInfo(c[i]))

\* json.loads(content): the dict, or JSONDecodeError
json_loads(c) == DictOf(c, Len(c) - 1)

\* The bytes after a write of buf at offset 0 of a file holding c.
WriteAt0(c, buf) == buf \o SubSeq(c, Len(buf) + 1, Len(c))

\* ---------------------------------------------------------------- LockedFile
\* Mutant: a lock call that returns at once, whoever holds the lock.
FlockNeverBlocks(w) == TRUE

\* fcntl.flock(fd, LOCK_EX) returns only when no other open file description
\* holds the lock.
FlockGranted(w) == flock = NoWorker

\* Mutant: an exit that drops the handle and leaves the flock in place.
FileCloseKeepsLock(w) ==
    /\ flock' = flock
    /\ openHandles' = openHandles \ {w}

\* self.file.close(): the flush of the buffered bytes happened just before;
\* closing the descriptor drops the flock it holds.
FileClose(w) ==
    /\ flock' = IF flock = w THEN NoWorker ELSE flock
    /\ openHandles' = openHandles \ {w}

\* Mutant: an open that never truncates, as mode 'r+' does.
OpenNeverTruncates(mode) == FALSE

\* Mutant: an open that raises after the handle exists and leaves it open.
OpenLeaksHandle(w) ==
    /\ flock' = flock
    /\ openHandles' = openHandles \cup {w}

\* open(path, mode) raises in __enter__: self.file is still None, the flock
\* line is never reached, and __exit__ is not run.
OpenFails(w) ==
    /\ flock' = flock
    /\ openHandles' = openHandles \ {w}

\* open(path, mode): 'w' truncates the file at once, 'r' and 'r+' do not.
OpenTruncates(mode) == mode = "w"

NoResult == [kind |-> "none", owner |-> ""]
Ok == [kind |-> "ok", owner |-> ""]
\* ValueError(f"File already locked by {existing['user']}")
AlreadyLocked(owner) == [kind |-> "AlreadyLocked", owner |-> owner]
\* ValueError("File is not locked")
NotLocked == [kind |-> "NotLocked", owner |-> ""]
\* ValueError(f"Lock owned by {locks[filename]['user']}, not {user}")
NotOwner(owner) == [kind |-> "NotOwner", owner |-> owner]

\* The values that is_locked returns.
True == [kind |-> "True", owner |-> ""]
False == [kind |-> "False", owner |-> ""]
\* An exception other than the ValueErrors above, by its class name.
Raised(exc) == [kind |-> exc, owner |-> ""]
\* ValueError(f"File not found: {filename}")
FileNotFound == [kind |-> "FileNotFound", owner |-> ""]

NoArgs == [op |-> "none", filename |-> "", user |-> "", message |-> ""]

\* No save_locks call whose dict is still what the control file holds.
NoSaved == [valid |-> FALSE, table |-> EmptyDict]

\* The dicts handed to save_locks in direct calls: every table of at most two
\* records over Files and Users, in either insertion order.
RecordsFor(f) ==
    {[name |-> f, user |-> u, timestamp |-> 0, message |-> m] :
        u \in Users, m \in Messages}

TablesToSave ==
    {EmptyDict}
    \cup {<<r>> : r \in UNION {RecordsFor(f) : f \in Files}}
    \cup {<<r1, r2>> : r1 \in RecordsFor(FileSeq[1]), r2 \in RecordsFor(FileSeq[2])}
    \cup {<<r2, r1>> : r1 \in RecordsFor(FileSeq[1]), r2 \in RecordsFor(FileSeq[2])}

\* The control file when the workers start: '{}' as LockManager.__init__ writes
\* it, or the table an earlier run left behind.
InitialTables ==
    {EmptyDict,
     <<[name |-> FileSeq[1], user |-> "mmclean", timestamp |-> 0,
        message |-> "edit gear"]>>}

\* The workers before their first call.
InitCalls ==
    /\ flock = NoWorker
    /\ openHandles = {}
    /\ args = [w \in Workers |-> NoArgs]
    /\ locks = [w \in Workers |-> EmptyDict]
    /\ result = [w \in Workers |-> NoResult]
    /\ raised = [w \in Workers |-> "none"]
    /\ mutated = [w \in Workers |-> FALSE]
    /\ fault = [w \in Workers |-> "none"]
    /\ logged = [w \in Workers |-> ""]
    /\ saved = NoSaved
    /\ calls = 0
    /\ clock = 1

\* Every worker holds a LockManager and is between calls.
InitWorkers ==
    /\ pc = [w \in Workers |-> "idle"]
    /\ InitCalls

InitStore ==
    /\ \E t \in InitialTables :
          /\ content = json_dump(t)
          /\ grants = [f \in AllFiles |-> IF HasKey(t, f) THEN 1 ELSE 0]
    /\ present = TRUE
    /\ InitWorkers

\* What the control file may hold when a single caller starts: nothing, only
\* whitespace, the start of a document, a document with bytes after it, '{}'
\* followed by a newline, or any table.
InitialContents ==
    {<<>>, <<Space>>, <<LBrace>>, <<LBrace, RBrace, RBrace>>, <<LBrace, RBrace, Space>>}
    \cup {json_dump(t) : t \in TablesToSave}

\* The one caller of the sequential specifications.
Caller == CHOOSE w \in Workers : \A v \in Workers : w <= v

\* test_file.write_text('{"counter": 0}') and the threads before start().
InitTest ==
    /\ test_file = <<0>>
    /\ tpc = [t \in Threads |-> "loop"]
    /\ data = [t \in Threads |-> 0]
    /\ iter = [t \in Threads |-> 0]

Init == InitStore /\ InitTest

\* ------------------------------------------------------------- LockManager
\* The operations of LockManager that change the table.
MutatorOps == {"acquire_lock", "release_lock"}
\* The operations that only read: is_locked and get_lock_info.
QueryOps == {"is_locked", "get_lock_info"}
\* The operations that start with load_locks.
LoaderOps == MutatorOps \cup {"load_locks"}
StoreOps == LoaderOps \cup {"save_locks"}

\* A public operation of LockManager is called.  save_locks(t) goes straight to
\* its with statement.  The others start with load_locks, which returns {} when
\* the file is missing and otherwise opens it in mode 'r'; the open succeeds
\* ("ok") or raises ("OSError").
Call(w, ops, fs, opens) ==
    /\ pc[w] = "idle"
    /\ UNCHANGED testVars
    /\ calls < MaxCalls
    /\ \E o \in ops, f \in fs, u \in Users, m \in Messages, e \in opens :
       \E t \in IF o = "save_locks" THEN TablesToSave ELSE {EmptyDict} :
          /\ args' = [args EXCEPT ![w] =
                        [op |-> o,
                         filename |-> IF o \in MutatorOps \cup QueryOps THEN f ELSE "",
                         user |-> IF o \in MutatorOps THEN u ELSE "",
                         message |-> IF o = "acquire_lock" THEN m ELSE ""]]
          /\ locks' = [locks EXCEPT ![w] = IF o = "save_locks" THEN t ELSE EmptyDict]
          /\ pc' = [pc EXCEPT ![w] =
                      IF o = "save_locks" THEN "save_open"
                      ELSE IF ~present THEN "load_missing"
                      ELSE IF e = "ok" THEN "load_flock"
                      ELSE "load_open"]
          /\ openHandles' = IF o # "save_locks" /\ present /\ e = "ok"
                            THEN openHandles \cup {w} ELSE openHandles
    /\ calls' = calls + 1
    /\ result' = [result EXCEPT ![w] = NoResult]
    /\ raised' = [raised EXCEPT ![w] = "none"]
    /\ mutated' = [mutated EXCEPT ![w] = FALSE]
    /\ fault' = [fault EXCEPT ![w] = "none"]
    /\ logged' = [logged EXCEPT ![w] = ""]
    /\ UNCHANGED <<content, flock, clock, grants, present, saved>>

\* The same call by a caller that passes any of the strings msgs as the
\* message of acquire_lock.
CallWith(w, ops, fs, opens, msgs) ==
    /\ pc[w] = "idle"
    /\ UNCHANGED testVars
    /\ calls < MaxCalls
    /\ \E o \in ops, f \in fs, u \in Users, m \in msgs, e \in opens :
       \E t \in IF o = "save_locks" THEN TablesToSave ELSE {EmptyDict} :
          /\ args' = [args EXCEPT ![w] =
                        [op |-> o,
                         filename |-> IF o \in MutatorOps \cup QueryOps THEN f ELSE "",
                         user |-> IF o \in MutatorOps THEN u ELSE "",
                         message |-> IF o = "acquire_lock" THEN m ELSE ""]]
          /\ locks' = [locks EXCEPT ![w] = IF o = "save_locks" THEN t ELSE EmptyDict]
          /\ pc' = [pc EXCEPT ![w] =
                      IF o = "save_locks" THEN "save_open"
                      ELSE IF ~present THEN "load_missing"
                      ELSE IF e = "ok" THEN "load_flock"
                      ELSE "load_open"]
          /\ openHandles' = IF o # "save_locks" /\ present /\ e = "ok"
                            THEN openHandles \cup {w} ELSE openHandles
    /\ calls' = calls + 1
    /\ result' = [result EXCEPT ![w] = NoResult]
    /\ raised' = [raised EXCEPT ![w] = "none"]
    /\ mutated' = [mutated EXCEPT ![w] = FALSE]
    /\ fault' = [fault EXCEPT ![w] = "none"]
    /\ logged' = [logged EXCEPT ![w] = ""]
    /\ UNCHANGED <<content, flock, clock, grants, present, saved>>

\* load_locks: LockedFile.__enter__ gets the flock and returns the handle.
LoadFlock(w) ==
    /\ pc[w] = "load_flock"
    /\ UNCHANGED testVars
    /\ FlockGranted(w)
    /\ flock' = w
    /\ pc' = [pc EXCEPT ![w] = "load_body"]
    /\ UNCHANGED <<content, openHandles, args, locks, result, raised, mutated,
                   calls, clock, grants, logged>>
    /\ UNCHANGED envVars

\* The exception leaving the with block of load_locks for the bytes read.
LoadRaises(c) ==
    LET text == Strip(c) IN
    IF text # <<>> /\ ~WellFormed(text) THEN "JSONDecodeError" ELSE "none"

\* What load_locks returns for the bytes it read.
LoadResult(c) ==
    LET text == Strip(c) IN
    IF text = <<>> THEN EmptyDict        \* not content.strip()
    ELSE IF WellFormed(text) THEN json_loads(text)
    ELSE EmptyDict                       \* except json.JSONDecodeError: return {}

\* Mutant: acquire_lock without the `filename in locks` check.
AcquireDecideOverwrites(w, d) ==
    /\ locks' = [locks EXCEPT ![w] =
                   SetItem(d, [name |-> args[w].filename, user |-> args[w].user,
                               timestamp |-> clock, message |-> args[w].message])]
    /\ clock' = clock + 1
    /\ pc' = [pc EXCEPT ![w] = "save_open"]
    /\ UNCHANGED result

\* The statements of acquire_lock between load_locks and save_locks, on the
\* dict d that load_locks returned.
AcquireDecide(w, d) ==
    LET f == args[w].filename IN
    IF HasKey(d, f)
    THEN /\ result' = [result EXCEPT ![w] = AlreadyLocked(Get(d, f).user)]
         /\ pc' = [pc EXCEPT ![w] = "idle"]
         /\ UNCHANGED <<locks, clock>>
    ELSE /\ locks' = [locks EXCEPT ![w] =
                        SetItem(d, [name |-> f, user |-> args[w].user,
                                    timestamp |-> clock,
                                    message |-> args[w].message])]
         /\ clock' = clock + 1
         /\ pc' = [pc EXCEPT ![w] = "save_open"]
         /\ UNCHANGED result

\* Mutant: release_lock without the owner check.
ReleaseDecideAnyUser(w, d) ==
    IF ~HasKey(d, args[w].filename)
    THEN /\ result' = [result EXCEPT ![w] = NotLocked]
         /\ pc' = [pc EXCEPT ![w] = "idle"]
         /\ UNCHANGED <<locks, clock>>
    ELSE /\ locks' = [locks EXCEPT ![w] = DelItem(d, args[w].filename)]
         /\ pc' = [pc EXCEPT ![w] = "save_open"]
         /\ UNCHANGED <<result, clock>>

\* Mutant: release_lock that removes with locks.pop(filename, None) and no
\* `filename not in locks` check.
ReleaseDecidePop(w, d) ==
    IF HasKey(d, args[w].filename) /\ Get(d, args[w].filename).user # args[w].user
    THEN /\ result' = [result EXCEPT ![w] = NotOwner(Get(d, args[w].filename).user)]
         /\ pc' = [pc EXCEPT ![w] = "idle"]
         /\ UNCHANGED <<locks, clock>>
    ELSE /\ locks' = [locks EXCEPT ![w] = DelItem(d, args[w].filename)]
         /\ pc' = [pc EXCEPT ![w] = "save_open"]
         /\ UNCHANGED <<result, clock>>

\* The statements of release_lock between load_locks and save_locks.
ReleaseDecide(w, d) ==
    LET f == args[w].filename IN
    IF ~HasKey(d, f)
    THEN /\ result' = [result EXCEPT ![w] = NotLocked]
         /\ pc' = [pc EXCEPT ![w] = "idle"]
         /\ UNCHANGED <<locks, clock>>
    ELSE IF Get(d, f).user # args[w].user
    THEN /\ result' = [result EXCEPT ![w] = NotOwner(Get(d, f).user)]
         /\ pc' = [pc EXCEPT ![w] = "idle"]
         /\ UNCHANGED <<locks, clock>>
    ELSE /\ locks' = [locks EXCEPT ![w] = DelItem(d, f)]
         /\ pc' = [pc EXCEPT ![w] = "save_open"]
         /\ UNCHANGED <<result, clock>>

\* load_locks called directly: the dict goes back to the caller.
LoadReturn(w, d) ==
    /\ locks' = [locks EXCEPT ![w] = d]
    /\ result' = [result EXCEPT ![w] = Ok]
    /\ pc' = [pc EXCEPT ![w] = "idle"]
    /\ UNCHANGED clock

\* Mutant: is_locked and get_lock_info answering from the dict '{}' that
\* the manager wrote when it was built, not from the dict just loaded.
QueryDecideCached(w, d) ==
    /\ result' = [result EXCEPT ![w] = IF args[w].op = "is_locked" THEN False ELSE Ok]
    /\ locks' = [locks EXCEPT ![w] = EmptyDict]
    /\ pc' = [pc EXCEPT ![w] = "idle"]
    /\ UNCHANGED clock

\* is_locked: return filename in locks; get_lock_info: return
\* locks.get(filename), the record or None, handed back in locks.
QueryDecide(w, d) ==
    LET f == args[w].filename IN
    /\ result' = [result EXCEPT ![w] =
                    IF args[w].op = "is_locked"
                    THEN (IF HasKey(d, f) THEN True ELSE False)
                    ELSE Ok]
    /\ locks' = [locks EXCEPT ![w] =
                   IF args[w].op = "get_lock_info" /\ HasKey(d, f)
                   THEN <<Get(d, f)>> ELSE EmptyDict]
    /\ pc' = [pc EXCEPT ![w] = "idle"]
    /\ UNCHANGED clock

\* What the caller of load_locks does with the dict d it got back.
Decide(w, d) ==
    IF args[w].op = "acquire_lock" THEN AcquireDecide(w, d)
    ELSE IF args[w].op = "release_lock" THEN ReleaseDecide(w, d)
    ELSE IF args[w].op \in QueryOps THEN QueryDecide(w, d)
    ELSE LoadReturn(w, d)

\* Mutant: load_locks without its except clauses.
LoadPropagates(exc) == exc

\* The exception that leaves load_locks when exc leaves its with statement:
\* `except json.JSONDecodeError` and `except Exception` both return {}.
LoadEscapes(exc) ==
    IF exc = "JSONDecodeError" THEN "none"
    ELSE IF exc = "OSError" THEN "none"
    ELSE exc

\* The logger.error line of the except clause that catches exc in load_locks.
LoadLogs(exc, before) ==
    IF exc = "JSONDecodeError" THEN "Failed to parse locks file"
    ELSE IF exc = "OSError" THEN "Faled to load locks"
    ELSE before

\* load_locks is left with exc out of its with statement and dict d to return
\* if nothing was raised; the caller goes on with what load_locks hands back.
LoadDone(w, exc, d) ==
    /\ raised' = [raised EXCEPT ![w] = exc]
    /\ logged' = [logged EXCEPT ![w] = LoadLogs(exc, @)]
    /\ IF LoadEscapes(exc) = "none"
       THEN Decide(w, IF exc = "none" THEN d ELSE EmptyDict)
       ELSE /\ result' = [result EXCEPT ![w] = Raised(exc)]
            /\ pc' = [pc EXCEPT ![w] = "idle"]
            /\ UNCHANGED <<locks, clock>>

\* load_locks on a missing control file: return {} without opening anything.
LoadMissing(w) ==
    /\ pc[w] = "load_missing"
    /\ UNCHANGED testVars
    /\ Decide(w, EmptyDict)
    /\ UNCHANGED <<content, flock, openHandles, args, raised, mutated, calls,
                   grants, logged>>
    /\ UNCHANGED envVars

\* load_locks inside the with block: content = f.read() and the parse; then
\* LockedFile.__exit__ (its flock(LOCK_UN) line raises NameError, which the bare
\* except swallows; close() follows), load_locks returns, and the caller runs
\* its checks on the dict.
LoadBody(w) ==
    /\ pc[w] = "load_body"
    /\ UNCHANGED testVars
    /\ FileClose(w)
    /\ \E exc \in {LoadRaises(content)}, d \in {LoadResult(content)} :
          LoadDone(w, exc, d)
    /\ UNCHANGED <<content, args, mutated, calls, grants>>
    /\ UNCHANGED envVars

\* save_locks: LockedFile.__enter__ opens the file in mode 'w'.
SaveOpen(w) ==
    /\ pc[w] = "save_open"
    /\ UNCHANGED testVars
    /\ content' = IF present /\ ~OpenTruncates("w") THEN content ELSE <<>>
    /\ present' = TRUE
    /\ mutated' = [mutated EXCEPT ![w] = TRUE]
    /\ openHandles' = openHandles \cup {w}
    /\ pc' = [pc EXCEPT ![w] = "save_flock"]
    /\ UNCHANGED <<flock, args, locks, result, raised, calls, clock, grants,
                   fault, logged, saved>>

\* save_locks: LockedFile.__enter__ gets the flock and returns the handle.
SaveFlock(w) ==
    /\ pc[w] = "save_flock"
    /\ UNCHANGED testVars
    /\ FlockGranted(w)
    /\ flock' = w
    /\ pc' = [pc EXCEPT ![w] = "save_body"]
    /\ UNCHANGED <<content, openHandles, args, locks, result, raised, mutated,
                   calls, clock, grants, logged>>
    /\ UNCHANGED envVars

\* save_locks inside the with block: json.dump into the handle's buffer; then
\* LockedFile.__exit__: close() writes the buffer at the handle's offset and
\* closes the file; the call returns normally.
SaveBody(w) ==
    /\ pc[w] = "save_body"
    /\ UNCHANGED testVars
    /\ content' = WriteAt0(content, json_dump(locks[w]))
    /\ mutated' = [mutated EXCEPT ![w] = TRUE]
    /\ FileClose(w)
    /\ result' = [result EXCEPT ![w] = Ok]
    /\ grants' = IF args[w].op = "save_locks" THEN grants
                 ELSE [grants EXCEPT ![args[w].filename] =
                         IF args[w].op = "acquire_lock" THEN @ + 1 ELSE @ - 1]
    /\ saved' = IF args[w].op = "save_locks"
                THEN [valid |-> TRUE, table |-> locks[w]] ELSE NoSaved
    /\ locks' = [locks EXCEPT ![w] = EmptyDict]
    /\ pc' = [pc EXCEPT ![w] = "idle"]
    /\ UNCHANGED <<args, raised, calls, clock, present, fault, logged>>

\* Mutant: save_locks that logs the exception and returns.
SaveSwallows(exc) == "none"

\* The exception that leaves save_locks when exc leaves its with statement:
\* `except Exception` logs it and re-raises.
SaveEscapes(exc) == exc

\* save_locks is left with exc out of its with statement; acquire_lock and
\* release_lock have no handler around save_locks, so the caller gets what
\* save_locks raises.
SaveFailed(w, exc) ==
    /\ raised' = [raised EXCEPT ![w] = exc]
    /\ logged' = [logged EXCEPT ![w] = "Failed to save locks"]
    /\ result' = [result EXCEPT ![w] =
                    IF SaveEscapes(exc) = "none" THEN Ok ELSE Raised(SaveEscapes(exc))]
    /\ locks' = [locks EXCEPT ![w] = EmptyDict]
    /\ pc' = [pc EXCEPT ![w] = "idle"]

\* load_locks: open(path, 'r') raises OSError.
LoadOpenFault(w) ==
    /\ pc[w] = "load_open"
    /\ UNCHANGED testVars
    /\ fault' = [fault EXCEPT ![w] = "load_open"]
    /\ OpenFails(w)
    /\ LoadDone(w, "OSError", EmptyDict)
    /\ UNCHANGED <<content, args, mutated, calls, grants, present, saved>>

\* load_locks: flock raises; __enter__ closes the file and raises IOError.
LoadFlockFault(w) ==
    /\ pc[w] = "load_flock"
    /\ UNCHANGED testVars
    /\ fault' = [fault EXCEPT ![w] = "load_flock"]
    /\ FileClose(w)
    /\ LoadDone(w, "OSError", EmptyDict)
    /\ UNCHANGED <<content, args, mutated, calls, grants, present, saved>>

\* load_locks: f.read() raises OSError; __exit__ closes the file.
LoadReadFault(w) ==
    /\ pc[w] = "load_body"
    /\ UNCHANGED testVars
    /\ fault' = [fault EXCEPT ![w] = "load_read"]
    /\ FileClose(w)
    /\ LoadDone(w, "OSError", EmptyDict)
    /\ UNCHANGED <<content, args, mutated, calls, grants, present, saved>>

\* save_locks: open(path, 'w') raises OSError; the file is left as it was.
SaveOpenFault(w) ==
    /\ pc[w] = "save_open"
    /\ UNCHANGED testVars
    /\ fault' = [fault EXCEPT ![w] = "save_open"]
    /\ OpenFails(w)
    /\ SaveFailed(w, "OSError")
    /\ UNCHANGED <<content, args, mutated, calls, clock, grants, present, saved>>

\* save_locks: flock raises on the file that open has truncated; __enter__
\* closes the file and raises IOError.
SaveFlockFault(w) ==
    /\ pc[w] = "save_flock"
    /\ UNCHANGED testVars
    /\ fault' = [fault EXCEPT ![w] = "save_flock"]
    /\ FileClose(w)
    /\ SaveFailed(w, "OSError")
    /\ UNCHANGED <<content, args, mutated, calls, clock, grants, present, saved>>

\* save_locks: the write of the buffered document fails part way (json.dump
\* or the flush in close() raises OSError); the file is closed.
SaveWriteFault(w) ==
    /\ pc[w] = "save_body"
    /\ UNCHANGED testVars
    /\ fault' = [fault EXCEPT ![w] = "save_write"]
    /\ \E k \in 0..(Len(json_dump(locks[w])) - 1) :
          content' = WriteAt0(content, SubSeq(json_dump(locks[w]), 1, k))
    /\ FileClose(w)
    /\ SaveFailed(w, "OSError")
    /\ UNCHANGED <<args, mutated, calls, clock, grants, present, saved>>

Fault(w) ==
    \/ LoadOpenFault(w)
    \/ LoadFlockFault(w)
    \/ LoadReadFault(w)
    \/ SaveOpenFault(w)
    \/ SaveFlockFault(w)
    \/ SaveWriteFault(w)

\* Mutant: an __exit__ whose unlock line is not wrapped in try/except.
ExitPropagates == "NameError"

\* The exception that leaves LockedFile.__exit__: the unlock line raises
\* (fnctl is not defined) inside `try: ... except: pass`, and close() raises
\* nothing, on an open file and on a closed one.
ExitRaises == "none"

\* A worker that has left its LockedFile block runs __exit__ on it once more:
\* self.file is set and closed, the unlock line is swallowed, and close() on a
\* closed file does nothing.
ExitAgain(w) ==
    /\ pc[w] = "idle"
    /\ UNCHANGED testVars
    /\ calls < MaxCalls
    /\ result[w] # NoResult
    /\ args[w].op \in StoreOps \cup {"__exit__"}
    /\ args' = [args EXCEPT ![w] =
                  [op |-> "__exit__", filename |-> "", user |-> "", message |-> ""]]
    /\ calls' = calls + 1
    /\ raised' = [raised EXCEPT ![w] = ExitRaises]
    /\ result' = [result EXCEPT ![w] =
                    IF ExitRaises = "none" THEN Ok ELSE Raised(ExitRaises)]
    /\ UNCHANGED <<content, flock, openHandles, pc, locks, mutated, clock, grants,
                   logged>>
    /\ UNCHANGED envVars

\* ------------------------------------------- FileRepository, FileService
\* The files in the repository directory.
RepoFiles == Files

\* FileRepository.__init__: Path.mkdir(parents=True, exists_ok=True) is called
\* with a keyword that mkdir does not have, and raises TypeError.
FileRepository_init == "TypeError"

\* FileService.__init__ builds its FileRepository first, then its LockManager.
FileService_init == FileRepository_init

\* checkout_file reads self.respository, an attribute that FileService never
\* sets, before file_exists or acquire_lock is reached.
checkout_file_raises == "AttributeError"

\* get_files_with_status calls self.repository.list_files() without the
\* argument `exension` that list_files requires.
get_files_with_status_raises == "TypeError"

\* The entry that get_files_with_status builds for file f from the dict t that
\* load_locks returned.
FileStatus(t, f) ==
    [name |-> f,
     status |-> IF HasKey(t, f) THEN "checked_out" ELSE "available",
     locked_by |-> IF HasKey(t, f) THEN Get(t, f).user ELSE "None"]

\* The exception that ends FileService(repo_path, locks_file).o(...) before
\* the LockManager is called.
ServiceRaises(o) ==
    IF FileService_init # "none" THEN FileService_init
    ELSE IF o = "checkout_file" THEN checkout_file_raises
    ELSE IF o = "get_files_with_status" THEN get_files_with_status_raises
    ELSE "none"

ServiceOps == {"checkout_file", "checkin_file", "get_files_with_status"}

\* A caller builds the FileService and calls checkout_file, checkin_file or
\* get_files_with_status on it: the constructor raises, so neither the
\* repository nor the LockManager is asked anything and nothing is returned.
ServiceCall(w, fs) ==
    /\ pc[w] = "idle"
    /\ UNCHANGED testVars
    /\ calls < MaxCalls
    /\ \E o \in ServiceOps, f \in fs, u \in Users, m \in Messages :
          /\ ServiceRaises(o) # "none"
          /\ args' = [args EXCEPT ![w] =
                        [op |-> o,
                         filename |-> IF o = "get_files_with_status" THEN "" ELSE f,
                         user |-> IF o = "get_files_with_status" THEN "" ELSE u,
                         message |-> IF o = "checkout_file" THEN m ELSE ""]]
          /\ result' = [result EXCEPT ![w] = Raised(ServiceRaises(o))]
          /\ raised' = [raised EXCEPT ![w] = ServiceRaises(o)]
    /\ calls' = calls + 1
    /\ locks' = [locks EXCEPT ![w] = EmptyDict]
    /\ mutated' = [mutated EXCEPT ![w] = FALSE]
    /\ fault' = [fault EXCEPT ![w] = "none"]
    /\ logged' = [logged EXCEPT ![w] = ""]
    /\ UNCHANGED <<content, flock, openHandles, pc, clock, grants, present, saved>>

Step(w) ==
    \/ LoadFlock(w)
    \/ LoadBody(w)
    \/ SaveOpen(w)
    \/ SaveFlock(w)
    \/ SaveBody(w)

\* Workers calling on any file of the repository.
Next == \E w \in Workers : Call(w, MutatorOps, Files, {"ok"}) \/ Step(w)

Spec == Init /\ [][Next]_vars

\* Workers calling on pairwise disjoint filenames.
NextDisjoint ==
    \E w \in Workers : Call(w, MutatorOps, {OwnFile(w)}, {"ok"}) \/ Step(w)

DisjointSpec == Init /\ [][NextDisjoint]_vars

\* Workers calling load_locks, save_locks, acquire_lock and release_lock, each
\* on its own filename, under a scheduler that lets every worker that can take
\* a step take one: a worker inside a block goes on, and a worker blocked in
\* flock goes on once the lock stays free.
NextLive ==
    \E w \in Workers :
        \/ Call(w, StoreOps, {OwnFile(w)}, {"ok"})
        \/ Step(w)

LiveSpec == Init /\ [][NextLive]_vars /\ \A w \in Workers : WF_vars(Step(w))

\* Workers that each hold a LockManager of their own on the same path and
\* call it in turn, a call starting when no other call is running.
NextTurn ==
    \E w \in Workers :
        \/ (\A v \in Workers : pc[v] = "idle")
              /\ Call(w, MutatorOps \cup QueryOps, Files, {"ok"})
        \/ Step(w)

TurnSpec == Init /\ [][NextTurn]_vars

\* LockManager.__init__, first line of the if: self.locks_file.exists().
Construct(w) ==
    /\ pc[w] = "new"
    /\ pc' = [pc EXCEPT ![w] = IF present THEN "idle" ELSE "init_write"]
    /\ UNCHANGED <<content, flock, openHandles, args, locks, result, raised, mutated,
                   calls, clock, grants, logged>>
    /\ UNCHANGED envVars
    /\ UNCHANGED testVars

\* What the file holds after self.locks_file.write_text('{}').
InitWriteText == json_dump(EmptyDict)

\* LockManager.__init__, body of the if: write_text('{}') opens the file in
\* mode 'w', writes and closes, without asking for the file lock.
InitWrite(w) ==
    /\ pc[w] = "init_write"
    /\ content' = InitWriteText
    /\ present' = TRUE
    /\ pc' = [pc EXCEPT ![w] = "idle"]
    /\ UNCHANGED <<flock, openHandles, args, locks, result, raised, mutated,
                   calls, clock, grants, logged, fault, saved>>
    /\ UNCHANGED testVars

\* The control file is missing or holds a table, and no worker has built its
\* LockManager yet.
InitConstruct ==
    /\ \E e \in BOOLEAN, t \in InitialTables :
          /\ present = e
          /\ content = IF e THEN json_dump(t) ELSE <<>>
          /\ grants = [f \in AllFiles |-> IF e /\ HasKey(t, f) THEN 1 ELSE 0]
    /\ pc = [w \in Workers |-> "new"]
    /\ InitCalls
    /\ InitTest

\* Workers that each build a LockManager on the same path and then call it.
NextConstruct ==
    \E w \in Workers :
        \/ Construct(w)
        \/ InitWrite(w)
        \/ Call(w, MutatorOps, Files, {"ok"})
        \/ Step(w)

ConstructSpec == InitConstruct /\ [][NextConstruct]_vars

\* One caller that passes any string as the message of acquire_lock, and
\* also goes through the FileService.
NextMessage ==
    \/ CallWith(Caller, MutatorOps, Files, {"ok"}, AnyMessages)
    \/ ServiceCall(Caller, AllFiles)
    \/ Step(Caller)

MessageSpec == Init /\ [][NextMessage]_vars

\* ------------------------------------------------ GET /api/files/{filename}
\* get_file of app/main.py: the names it accepts.
valid_files == <<"4801247.mcam", "1810118.mcam">>

\* get_file of app/api/files.py: the files it knows.
MOCK_FILES ==
    << [name |-> "4200124.mcam", status |-> "available",
        size_bytes |-> 1234567, locked_by |-> "None"],
       [name |-> "4806148.mcam", status |-> "checked_out",
        size_bytes |-> 2345678, locked_by |-> "mmclean"],
       [name |-> "4604524.mcam", status |-> "available",
        size_bytes |-> 987654, locked_by |-> "None"] >>

\* The answer to a request: the status code and, with 200, the body.
HttpStatus(code) == [kind |-> code, owner |-> ""]
NoBody == <<>>

\* Mutant: get_file of app/main.py without the test on valid_files.
get_file_main_unchecked(filename) ==
    [status_code |-> "200",
     body |-> <<[filename |-> filename, status |-> "available",
                 size |-> "1.2 MB", last_modified |-> "2025-10-01"]>>]

\* get_file of app/main.py: 404 if filename not in valid_files, else the
\* fixed description of the file.
get_file_main(filename) ==
    IF \A i \in 1..Len(valid_files) : valid_files[i] # filename
    THEN [status_code |-> "404", body |-> NoBody]
    ELSE [status_code |-> "200",
          body |-> <<[filename |-> filename, status |-> "available",
                      size |-> "1.2 MB", last_modified |-> "2025-10-01"]>>]

\* get_file of app/api/files.py: the first entry of MOCK_FILES with the name,
\* or 404 when the loop ends without one.
get_file_api(filename) ==
    LET hits == SelectSeq(MOCK_FILES, LAMBDA file : file.name = filename) IN
    IF hits # <<>>
    THEN [status_code |-> "200", body |-> <<Head(hits)>>]
    ELSE [status_code |-> "404", body |-> NoBody]

GetFileOps == {"main.get_file", "api.get_file"}
get_file(o, filename) ==
    IF o = "main.get_file" THEN get_file_main(filename) ELSE get_file_api(filename)

\* The filenames that requests ask for: the files of the repository, the names
\* either handler knows, and the name the test asks for.
RequestNames ==
    AllFiles \cup {valid_files[i] : i \in 1..Len(valid_files)}
             \cup {MOCK_FILES[i].name : i \in 1..Len(MOCK_FILES)}
             \cup {"NONEXISTENT.mcam"}

\* A client sends GET /api/files/{filename} to one of the two applications.
GetFile(w, names) ==
    /\ pc[w] = "idle"
    /\ calls < MaxCalls
    /\ \E o \in GetFileOps, f \in names :
          /\ args' = [args EXCEPT ![w] =
                        [op |-> o, filename |-> f, user |-> "", message |-> ""]]
          /\ result' = [result EXCEPT ![w] = HttpStatus(get_file(o, f).status_code)]
          /\ locks' = [locks EXCEPT ![w] = get_file(o, f).body]
    /\ calls' = calls + 1
    /\ raised' = [raised EXCEPT ![w] = "none"]
    /\ mutated' = [mutated EXCEPT ![w] = FALSE]
    /\ fault' = [fault EXCEPT ![w] = "none"]
    /\ logged' = [logged EXCEPT ![w] = ""]
    /\ UNCHANGED <<content, flock, openHandles, pc, clock, grants, present, saved>>
    /\ UNCHANGED testVars

\* Clients of the two applications.
NextHttp == \E w \in Workers : GetFile(w, RequestNames)

HttpSpec == Init /\ [][NextHttp]_vars

\* Workers that also run the exit step of a block they have left.
NextExit ==
    \E w \in Workers :
        \/ Call(w, MutatorOps, {OwnFile(w)}, {"ok"})
        \/ Step(w)
        \/ ExitAgain(w)

ExitSpec == Init /\ [][NextExit]_vars

\* The control file as a single caller may find it: removed since the
\* LockManager was built, or holding any of InitialContents.
InitFile ==
    /\ \E e \in BOOLEAN, c \in InitialContents :
          /\ present = e
          /\ content = IF e THEN c ELSE <<>>
    /\ grants = [f \in AllFiles |-> IF HasKey(LoadResult(content), f) THEN 1 ELSE 0]
    /\ InitWorkers

\* One caller at a time, using every operation of the LockManager and of the
\* FileService.
InitSeq == InitFile /\ InitTest

NextSeq ==
    \/ Call(Caller, StoreOps, Files, {"ok"})
    \/ ServiceCall(Caller, AllFiles)
    \/ LoadMissing(Caller)
    \/ Step(Caller)

SeqSpec == InitSeq /\ [][NextSeq]_vars

\* One caller at a time, on a file system whose calls may fail.
NextFault ==
    \/ Call(Caller, StoreOps, Files, {"ok", "OSError"})
    \/ Step(Caller)
    \/ Fault(Caller)

FaultSpec == Init /\ [][NextFault]_vars

\* ------------------------------------------------- safe_increment (__main__)
\* for i in range(100): LockedFile.__enter__ opens test_file in mode 'r+'.
IncOpen(t) ==
    /\ tpc[t] = "loop"
    /\ UNCHANGED storeVars
    /\ iter[t] < Iterations
    /\ test_file' = IF OpenTruncates("r+") THEN <<>> ELSE test_file
    /\ openHandles' = openHandles \cup {t}
    /\ tpc' = [tpc EXCEPT ![t] = "inc_flock"]
    /\ UNCHANGED <<flock, data, iter>>

\* LockedFile.__enter__ gets the flock and returns the handle.
IncFlock(t) ==
    /\ tpc[t] = "inc_flock"
    /\ UNCHANGED storeVars
    /\ FlockGranted(t)
    /\ flock' = t
    /\ tpc' = [tpc EXCEPT ![t] = "inc_load"]
    /\ UNCHANGED <<openHandles, test_file, data, iter>>

\* data = json.load(f); data['counter'] += 1.  On bytes that are no JSON
\* document json.load raises, __exit__ closes the file and the thread ends.
IncLoad(t) ==
    /\ tpc[t] = "inc_load"
    /\ UNCHANGED storeVars
    /\ IF Len(test_file) = 1
       THEN /\ data' = [data EXCEPT ![t] = test_file[1] + 1]
            /\ tpc' = [tpc EXCEPT ![t] = "inc_truncate"]
            /\ UNCHANGED <<flock, openHandles>>
       ELSE /\ FileClose(t)
            /\ tpc' = [tpc EXCEPT ![t] = "crashed"]
            /\ UNCHANGED data
    /\ UNCHANGED <<test_file, iter>>

\* f.seek(0); f.truncate()
IncTruncate(t) ==
    /\ tpc[t] = "inc_truncate"
    /\ UNCHANGED storeVars
    /\ test_file' = <<>>
    /\ tpc' = [tpc EXCEPT ![t] = "inc_dump"]
    /\ UNCHANGED <<flock, openHandles, data, iter>>

\* json.dump(data, f) into the handle's buffer, then LockedFile.__exit__:
\* close() writes the buffer at offset 0 and closes the file.
IncExit(t) ==
    /\ tpc[t] = "inc_dump"
    /\ UNCHANGED storeVars
    /\ test_file' = WriteAt0(test_file, <<data[t]>>)
    /\ FileClose(t)
    /\ iter' = [iter EXCEPT ![t] = @ + 1]
    /\ tpc' = [tpc EXCEPT ![t] = "loop"]
    /\ UNCHANGED data

NextTest ==
    \E t \in Threads :
        \/ IncOpen(t)
        \/ IncFlock(t)
        \/ IncLoad(t)
        \/ IncTruncate(t)
        \/ IncExit(t)

TestSpec == Init /\ [][NextTest]_vars

\* ------------------------------------------------------------------ claims
\* A worker is inside a LockedFile block: __enter__ has returned the handle
\* and __exit__ has not run.
InBlock(w) == pc[w] \in {"load_body", "save_body"}
\* A worker waits in __enter__ for the flock.
Waiting(w) == pc[w] \in {"load_flock", "save_flock"}
\* A mutator has read the table and has not yet written it.
BetweenReadAndWrite(w) == pc[w] \in {"save_open", "save_flock", "save_body"}
Quiescent == \A w \in Workers : pc[w] = "idle"
\* The table the control file holds.
Table == LoadResult(content)
\* Worker w takes the step that reads the control file in a call of o.
Reads(w, o) == pc[w] = "load_body" /\ pc'[w] # "load_body" /\ args[w].op = o

\* The filenames without a record when the workers start.
FreeAtStart == {f \in AllFiles : \A t \in InitialTables : ~HasKey(t, f)}

\* C1: mutual exclusion.  Of concurrent acquire calls on a filename that has
\* no record exactly one succeeds: such a filename never has more successful
\* acquires than successful releases plus one.
C1_MutualExclusion == \A f \in FreeAtStart : grants[f] <= 1

\* C2: between its read of the table and its write of the table a mutator
\* holds the file lock, so no other worker holds it then.
C2_LockHeldFromReadToWrite ==
    \A w \in Workers : BetweenReadAndWrite(w) => flock \notin (Workers \ {w})

\* C3: no lost updates.  With workers calling on pairwise disjoint filenames,
\* once all calls have finished the table holds exactly the filenames whose
\* acquire succeeded and was not followed by a successful release.
C3_NoLostUpdates ==
    Quiescent => \A f \in AllFiles : HasKey(Table, f) <=> grants[f] = 1

\* C4: at any moment at most one worker is inside a LockedFile block on the
\* control file.
C4_AtMostOneInBlock == Cardinality({w \in Workers : InBlock(w)}) <= 1

\* C4 witness: one worker is inside a block while another waits for the lock.
C4_Witness == \E w1, w2 \in Workers : w1 # w2 /\ InBlock(w1) /\ Waiting(w2)

\* C5: the content of the control file never changes while a different worker
\* holds the lock: a step that changes the content is a step of the holder.
C5_NoChangeUnderForeignLock ==
    [][(flock \in Workers /\ content' # content) => pc'[flock] # pc[flock]]_vars

\* C6: the lock is released and the handle closed on every exit path of a
\* LockedFile block: a worker outside LockedFile neither holds the lock nor
\* has an open handle, and with no worker inside a block the lock is free.
C6_ReleasedOnExit ==
    /\ \A w \in Workers :
          pc[w] \in {"idle", "save_open"} => flock # w /\ w \notin openHandles
    /\ (\A w \in Workers : ~InBlock(w)) => flock = NoWorker

\* C6 witness: a block was left by a raised error, another by normal return,
\* and the lock is free.
C6_Witness ==
    \E w1, w2 \in Workers :
        /\ raised[w1] = "JSONDecodeError" /\ pc[w1] = "idle"
        /\ result[w2] = Ok /\ pc[w2] = "idle"
        /\ flock = NoWorker /\ openHandles = {}

\* Every thread of the stress test has ended: t.join() has returned for all.
AllJoined ==
    \A t \in Threads : tpc[t] = "crashed" \/ (tpc[t] = "loop" /\ iter[t] = Iterations)

\* C7: when every thread has repeated the locked read, add 1, write back
\* block k times, the counter is (number of threads) x k.
C7_NoLostIncrement == AllJoined => test_file = <<NumThreads * Iterations>>

\* C7 witness: every thread has completed all its increments and the counter
\* has its final value.
C7_Witness ==
    /\ AllJoined
    /\ \A t \in Threads : iter[t] = Iterations
    /\ test_file = <<NumThreads * Iterations>>

\* C8: acquire on a filename that has a record in the control file fails with
\* AlreadyLocked carrying the owner of that record, and the control file is
\* the same after the call.
C8_AcquireLockedFails ==
    [][\A w \in Workers :
         (Reads(w, "acquire_lock") /\ HasKey(Table, args[w].filename)) =>
            /\ result'[w] = AlreadyLocked(Get(Table, args[w].filename).user)
            /\ pc'[w] = "idle"
            /\ ~mutated'[w]
            /\ content' = content]_vars

\* C8 witness: an acquire has failed with AlreadyLocked and the record of the
\* owner it names is in the control file.
C8_Witness ==
    \E w \in Workers :
        /\ pc[w] = "idle" /\ result[w].kind = "AlreadyLocked"
        /\ HasKey(Table, args[w].filename)
        /\ Get(Table, args[w].filename).user = result[w].owner
        /\ result[w].owner # args[w].user

\* C9: ownership gate.  release(f, B) on a filename whose record is owned by
\* A # B fails with NotOwner carrying A, and the control file is the same
\* after the call.
C9_ReleaseByOtherFails ==
    [][\A w \in Workers :
         (/\ Reads(w, "release_lock")
          /\ HasKey(Table, args[w].filename)
          /\ Get(Table, args[w].filename).user # args[w].user) =>
            /\ result'[w] = NotOwner(Get(Table, args[w].filename).user)
            /\ pc'[w] = "idle"
            /\ ~mutated'[w]
            /\ content' = content]_vars

\* C9 witness: a release has failed with NotOwner and the owner's record is
\* in the control file.
C9_Witness ==
    \E w \in Workers :
        /\ pc[w] = "idle" /\ result[w].kind = "NotOwner"
        /\ HasKey(Table, args[w].filename)
        /\ Get(Table, args[w].filename).user = result[w].owner
        /\ result[w].owner # args[w].user

\* C10: release on a filename without a record in the control file fails with
\* NotLocked, and the control file is the same after the call.
C10_ReleaseUnlockedFails ==
    [][\A w \in Workers :
         (Reads(w, "release_lock") /\ ~HasKey(Table, args[w].filename)) =>
            /\ result'[w] = NotLocked
            /\ pc'[w] = "idle"
            /\ ~mutated'[w]
            /\ content' = content]_vars

\* C10 witness: a release has failed with NotLocked on a table that holds
\* another file's record.
C10_Witness ==
    \E w \in Workers :
        /\ pc[w] = "idle" /\ result[w].kind = "NotLocked"
        /\ ~HasKey(Table, args[w].filename)
        /\ Table # EmptyDict

\* Worker w takes the step that starts the write of a call of o: save_locks
\* opens the control file while the file holds a well-formed table.
StartsWrite(w, o) ==
    /\ pc[w] = "save_open" /\ pc'[w] = "save_flock"
    /\ args[w].op = o
    /\ WellFormed(content)

\* Dict d and table t hold the same record, or none, for every filename but f.
SameExcept(d, t, f) ==
    \A g \in AllFiles \ {f} :
        /\ HasKey(d, g) <=> HasKey(t, g)
        /\ HasKey(d, g) => Get(d, g) = Get(t, g)

\* C11: a successful acquire adds exactly one record, for its filename with
\* the given owner and message, and persists it; every other filename's record
\* is left as it was: the dict the call persists is the table the control file
\* holds when the write starts plus that one record.
C11_AcquireAddsOneRecord ==
    [][\A w \in Workers :
         StartsWrite(w, "acquire_lock") =>
            /\ HasKey(locks[w], args[w].filename)
            /\ Get(locks[w], args[w].filename).user = args[w].user
            /\ Get(locks[w], args[w].filename).message = args[w].message
            /\ SameExcept(locks[w], Table, args[w].filename)]_vars

\* C12: a successful release by the owner removes exactly the record of its
\* filename and persists the result; every other filename's record is left as
\* it was: the dict the call persists is the table the control file holds when
\* the write starts minus that one record.
C12_ReleaseRemovesOneRecord ==
    [][\A w \in Workers :
         StartsWrite(w, "release_lock") =>
            /\ ~HasKey(locks[w], args[w].filename)
            /\ SameExcept(locks[w], Table, args[w].filename)]_vars

\* No save_locks is between its truncation of the control file and its write.
NoSaveInFlight == \A w \in Workers : pc[w] \notin {"save_flock", "save_body"}

\* C13: a filename is available or checked out, and changes state only by a
\* successful acquire or release on that filename: whenever no write is in
\* flight, the filename has a record exactly when the successful acquires on
\* it outnumber the successful releases on it, by one.
C13_OnlyCallsOnFileChangeIt ==
    \A f \in AllFiles :
        /\ grants[f] \in {0, 1}
        /\ NoSaveInFlight => (HasKey(Table, f) <=> grants[f] = 1)

\* The bytes c are no JSON document: json.loads(c) raises JSONDecodeError.
Unparsable(c) == Strip(c) # <<>> /\ ~WellFormed(Strip(c))

\* Worker w has returned from a direct call of load_locks.
Loaded(w) == pc[w] = "idle" /\ args[w].op = "load_locks"

\* C14: round trip.  With no other operation in between, load_locks after
\* save_locks(T) returns T, for every well-formed table T, the empty one
\* included.
C14_SaveLoadRoundTrip ==
    \A w \in Workers :
        (Loaded(w) /\ saved.valid) =>
            /\ result[w] = Ok
            /\ locks[w] = saved.table

\* C14 witness: load_locks has returned the two-record table that the
\* save_locks call before it wrote.
C14_Witness ==
    \E w \in Workers :
        /\ Loaded(w) /\ saved.valid
        /\ Len(saved.table) = 2
        /\ locks[w] = saved.table

\* C15: load_locks returns the empty table and raises nothing when the control
\* file is missing, empty or whitespace only, or holds malformed JSON; in the
\* malformed case the error is logged.
C15_LoadRecoversEmpty ==
    \A w \in Workers :
        (Loaded(w) /\ (~present \/ Strip(content) = <<>> \/ Unparsable(content))) =>
            /\ result[w] = Ok
            /\ locks[w] = EmptyDict
            /\ (present /\ Unparsable(content)) =>
                   logged[w] = "Failed to parse locks file"

\* C15 witness: load_locks has returned normally from a control file that
\* holds malformed JSON, and has logged the parse error.
C15_Witness ==
    \E w \in Workers :
        /\ Loaded(w) /\ present /\ Unparsable(content)
        /\ result[w] = Ok
        /\ logged[w] = "Failed to parse locks file"

\* The I/O failures of save_locks and of load_locks.
SaveFaults == {"save_open", "save_flock", "save_write"}
LoadFaults == {"load_open", "load_flock", "load_read"}

\* C16: an I/O failure during save_locks, at the open, at the lock or at the
\* write, reaches the caller as an exception; an acquire or release whose save
\* failed does not report success.
C16_SaveFailureSurfaces ==
    \A w \in Workers :
        (pc[w] = "idle" /\ fault[w] \in SaveFaults) =>
            /\ result[w] = Raised("OSError")
            /\ logged[w] = "Failed to save locks"

\* C16 witness: an acquire whose write failed has ended with the OSError.
C16_Witness ==
    \E w \in Workers :
        /\ pc[w] = "idle" /\ args[w].op = "acquire_lock"
        /\ fault[w] = "save_write"
        /\ result[w] = Raised("OSError")

\* C17: when the control file exists and cannot be read at the OS level the
\* call ends with an I/O error: it never goes on to its checks and its save
\* on an empty table.
C17_ReadFailureReported ==
    \A w \in Workers :
        fault[w] \in LoadFaults =>
            /\ pc[w] = "idle"
            /\ result[w] = Raised("OSError")

\* Worker w takes a step in which open() raises.
OpenFailed(w) == fault'[w] # fault[w] /\ fault'[w] \in {"load_open", "save_open"}

\* C18: when open() raises on entering LockedFile, the lock is not taken, no
\* handle is left open, the file is untouched, and the OSError leaves the with
\* statement.
C18_OpenFailureTakesNoLock ==
    [][\A w \in Workers :
         OpenFailed(w) =>
            /\ flock' = flock
            /\ flock' # w
            /\ w \notin openHandles'
            /\ content' = content
            /\ present' = present
            /\ raised'[w] = "OSError"]_vars

\* C18 witness: a save_locks call has ended with the OSError of its open, the
\* control file still holds a record, and nobody holds a handle or the lock.
C18_Witness ==
    \E w \in Workers :
        /\ pc[w] = "idle" /\ fault[w] = "save_open"
        /\ raised[w] = "OSError"
        /\ openHandles = {} /\ flock = NoWorker
        /\ Table # EmptyDict

\* Worker w has returned from a call of operation o of the FileService.
Served(w, o) == pc[w] = "idle" /\ args[w].op = o

\* C19: checkout_file on a filename that the repository does not have fails
\* with FileNotFound; on a filename it has, the call ends as acquire_lock
\* ends, normally or with AlreadyLocked.
C19_CheckoutChecksRepository ==
    \A w \in Workers :
        Served(w, "checkout_file") =>
            IF args[w].filename \in RepoFiles
            THEN result[w].kind \in {"ok", "AlreadyLocked"}
            ELSE result[w] = FileNotFound

\* C20: checkout, refused second checkout, refused foreign checkin, checkin.
\* With one caller at a time every call on a file of the repository ends as
\* the table dictates: a checkout leaves the file with a record, the caller's
\* own if it succeeded and the owner's named in AlreadyLocked if not; a
\* checkin succeeds and leaves no record, or fails with NotOwner naming the
\* owner of the record, or with NotLocked when there is none.
C20_CheckoutCheckinScenario ==
    \A w \in Workers :
        LET f == args[w].filename
            u == args[w].user
        IN  /\ (Served(w, "checkout_file") /\ f \in RepoFiles) =>
                   /\ HasKey(Table, f)
                   /\ \/ result[w] = Ok /\ Get(Table, f).user = u
                      \/ result[w] = AlreadyLocked(Get(Table, f).user)
            /\ (Served(w, "checkin_file") /\ f \in RepoFiles) =>
                   \/ result[w] = Ok /\ ~HasKey(Table, f)
                   \/ result[w] = NotLocked /\ ~HasKey(Table, f)
                   \/ /\ HasKey(Table, f)
                      /\ result[w] = NotOwner(Get(Table, f).user)
                      /\ Get(Table, f).user # u

\* C21: get_files_with_status returns one entry per file of the repository,
\* checked_out with locked_by the owner of the record exactly when the table
\* has a record for the name, available with no locked_by otherwise.  The
\* value a call hands back is in locks.
C21_ListWithStatus ==
    \A w \in Workers :
        Served(w, "get_files_with_status") =>
            /\ result[w] = Ok
            /\ Len(locks[w]) = Cardinality(RepoFiles)
            /\ {locks[w][i] : i \in 1..Len(locks[w])}
                  = {FileStatus(Table, f) : f \in RepoFiles}

\* The four error kinds of the store and of the facade.
ErrorKinds == {"FileNotFound", "AlreadyLocked", "NotLocked", "NotOwner"}

\* C22: a failing checkout or checkin tells the caller which of FileNotFound,
\* AlreadyLocked, NotLocked and NotOwner occurred: the call ends normally or
\* with one of the four kinds, FileNotFound exactly for a file the repository
\* does not have.
C22_ErrorKindsDistinct ==
    \A w \in Workers :
        (Served(w, "checkout_file") \/ Served(w, "checkin_file")) =>
            /\ result[w].kind \in ErrorKinds \cup {"ok"}
            /\ (Served(w, "checkout_file") /\ args[w].filename \notin RepoFiles)
                  <=> result[w].kind = "FileNotFound"

\* Some worker takes the step that runs __exit__ a second time.
ExitsAgain(w) == args'[w].op = "__exit__" /\ calls' # calls /\ pc' = pc

\* C23: releasing an already released file lock is a no-op: the second run of
\* the exit step raises nothing and changes neither the holder of the lock,
\* nor the open handles, nor the content of the file.
C23_SecondExitIsNoOp ==
    [][\A w \in Workers :
         ExitsAgain(w) =>
            /\ result'[w] = Ok
            /\ raised'[w] = "none"
            /\ flock' = flock
            /\ openHandles' = openHandles
            /\ content' = content]_vars

\* C23 witness: a worker has run the exit step again while another worker
\* holds the lock and the control file holds a record.
C23_Witness ==
    \E w \in Workers :
        /\ args[w].op = "__exit__" /\ result[w] = Ok
        /\ flock \in Workers \ {w}
        /\ Table # EmptyDict

\* C24: under fair scheduling every call of load_locks, save_locks,
\* acquire_lock and release_lock eventually returns, with a result or an
\* error: a worker blocked on the file lock gets it, and a worker inside a
\* block leaves it and releases the lock.
C24_EveryCallReturns ==
    \A w \in Workers : (pc[w] # "idle") ~> (pc[w] = "idle")

\* C24 witness: one worker is blocked in flock while another is inside its
\* block with the lock.
C24_Witness ==
    \E w \in Workers, v \in Workers :
        /\ w # v
        /\ Waiting(w)
        /\ InBlock(v) /\ flock = v

\* The dicts of the save_locks runs that have opened the control file and not
\* yet written it.
BeingSaved == {locks[v] : v \in {u \in Workers : pc[u] \in {"save_flock", "save_body"}}}

\* C25: save_locks is atomic with respect to load_locks: a load that runs
\* while the table last saved is T1 and other workers are saving returns T1 or
\* one of the tables being saved, never a table that is neither.
C25_LoadSeesOldOrNew ==
    [][\A w \in Workers :
         (pc[w] = "load_body" /\ pc'[w] # "load_body" /\ saved.valid) =>
            LoadResult(content) \in {saved.table} \cup BeingSaved]_vars

\* Worker w takes the step that reads the control file.
ReadsFile(w) == pc[w] = "load_body" /\ pc'[w] # "load_body"

\* C26: the store keeps no table between calls.  With calls that do not
\* overlap, whichever worker's manager makes them, the control file a call
\* reads has a record for a filename exactly when the successful acquires on
\* it by all workers outnumber the successful releases, and is_locked,
\* get_lock_info, acquire_lock and release_lock decide on that record.
C26_NoTableKeptBetweenCalls ==
    [][\A w \in Workers :
         ReadsFile(w) =>
            LET f == args[w].filename
                o == args[w].op
                held == grants[f] = 1
            IN  /\ HasKey(Table, f) <=> held
                /\ o = "is_locked" => result'[w] = (IF held THEN True ELSE False)
                /\ o = "get_lock_info" =>
                      locks'[w] = (IF held THEN <<Get(Table, f)>> ELSE EmptyDict)
                /\ o = "acquire_lock" => (pc'[w] = "save_open" <=> ~held)
                /\ o = "release_lock" => (pc'[w] = "save_open" => held)]_vars

\* C26 witness: is_locked on one worker's manager has answered True for a
\* filename that was free at the start and that another worker has acquired.
C26_Witness ==
    \E w \in Workers, v \in Workers :
        /\ v # w
        /\ pc[w] = "idle" /\ args[w].op = "is_locked" /\ result[w] = True
        /\ args[w].filename \in FreeAtStart
        /\ args[v].op = "acquire_lock" /\ result[v] = Ok
        /\ args[v].filename = args[w].filename

C28_NoResurrection ==
    \A w \in Workers :
        (pc[w] = "idle" /\ args[w].op = "release_lock" /\ result[w] = Ok)
            => ~HasKey(Table, args[w].filename)

\* Worker w takes the step of the constructor that writes the control file.
WritesInit(w) == pc[w] = "init_write" /\ pc'[w] # "init_write"

\* C29: building a LockManager never removes or changes an existing record:
\* every record the control file holds before the constructor's write is in
\* it, unchanged, after the write.
C29_ConstructorKeepsRecords ==
    [][\A w \in Workers :
         WritesInit(w) =>
            \A f \in AllFiles :
                HasKey(Table, f) => (HasKey(Table', f) /\ Get(Table', f) = Get(Table, f))]_vars

\* C30: a save that fails leaves the stored table intact: when a call has
\* ended with a failure of its save, at the open, at the lock or at the
\* write, the control file still holds the table of the last save_locks call
\* that returned.
C30_FailedSaveKeepsTable ==
    \A w \in Workers :
        (pc[w] = "idle" /\ fault[w] \in SaveFaults /\ saved.valid)
            => Table = saved.table

\* C31: the AlreadyLocked error of an acquire on a filename that has a record
\* carries the owner and the timestamp of that record.
C31_AlreadyLockedCarriesTimestamp ==
    [][\A w \in Workers :
         (Reads(w, "acquire_lock") /\ HasKey(Table, args[w].filename)) =>
            LET existing == Get(Table, args[w].filename) IN
            /\ result'[w].kind = "AlreadyLocked"
            /\ result'[w].owner = existing.user
            /\ "timestamp" \in DOMAIN result'[w]
            /\ result'[w].timestamp = existing.timestamp]_vars

\* C32: every record of the table has a message of 1 to 500 characters.
C32_MessageLengthInRange ==
    \A f \in AllFiles :
        HasKey(Table, f) => ValidMessage(Get(Table, f).message)

\* The filenames that the handler of operation o knows.
KnownFiles(o) ==
    IF o = "main.get_file" THEN {"4801247.mcam", "1810118.mcam"}
    ELSE {"4200124.mcam", "4806148.mcam", "4604524.mcam"}

\* The name that the body b of an answer gives to its file.
NameIn(o, b) == IF o = "main.get_file" THEN b.filename ELSE b.name

\* C33: GET /api/files/{filename} answers 404, without a body, for every
\* filename that is not one of the known files, and answers 200 with the
\* information of that file for a known filename.
C33_GetFileNotFound ==
    \A w \in Workers :
        (pc[w] = "idle" /\ args[w].op \in GetFileOps) =>
            LET o == args[w].op
                f == args[w].filename
            IN  IF f \in KnownFiles(o)
                THEN /\ result[w] = HttpStatus("200")
                     /\ Len(locks[w]) = 1
                     /\ NameIn(o, locks[w][1]) = f
                ELSE /\ result[w] = HttpStatus("404")
                     /\ locks[w] = NoBody

\* C33 witness: the request of the test, for NONEXISTENT.mcam, has been
\* answered 404, and a request for a known file has been answered 200.
C33_Witness ==
    \E w \in Workers, v \in Workers :
        /\ args[w].op \in GetFileOps /\ args[w].filename = "NONEXISTENT.mcam"
        /\ result[w] = HttpStatus("404")
        /\ args[v].op \in GetFileOps /\ args[v].filename \in KnownFiles(args[v].op)
        /\ result[v] = HttpStatus("200")

====
